---- MODULE Spec2Model ----
(***************************************************************************)
(* log-detective: the auth.log parser (src/parser.py) and the two          *)
(* detection rules (src/detections.py and the top-level detections.py).    *)
(*                                                                         *)
(* Spec      : one call of detect_bruteforce_by_ip (Rule A) or of          *)
(*             detect_success_after_failures (Rule B) on an event table.   *)
(* SpecParse : one call of parse_auth_log on the lines of a file.          *)
(***************************************************************************)
EXTENDS Integers, Sequences, FiniteSets, TLC

VARIABLES
    module,          \* which detections module is imported
    fn,              \* the function called: "detect_bruteforce_by_ip" | "detect_success_after_failures"
    events,          \* the events DataFrame passed in (sequence of rows, input order)
    threshold,       \* threshold / failure_threshold
    window_minutes,  \* window_minutes
    pc,              \* position in the called function
    df,              \* Rule A: failures sorted by timestamp; Rule B: the failures subset
    todo,            \* Rule A: ips of the groups still to scan; Rule B: successes still to visit
    left,            \* Rule A: left cursor (0-based, as in the code)
    right,           \* Rule A: right cursor (0-based)
    alerts,          \* the alerts list
    result,          \* what the call returned (or raised) once pc = "done"
    exists,          \* parse_auth_log: whether the file at path exists
    lines,           \* parse_auth_log: the lines of the file (read_text().splitlines())
    year,            \* parse_auth_log: the reference year
    rows             \* parse_auth_log: the rows list

parserVars == <<exists, lines, year, rows>>

vars == <<module, fn, events, threshold, window_minutes, pc, df, todo, left, right, alerts, result,
          parserVars>>

----------------------------------------------------------------------------
(* Bounds and input domains *)

MaxEvents == 4
MaxLines == 3

\* pd.NaT / None: an absent value
NaT == -1
None == "None"

\* The two modules of the repository that define the detection rules:
\* "src.detections" is src/src/detections.py (what run.py, app.py and the tests import),
\* "detections" is the top-level src/detections.py.
Modules == {"src.detections", "detections"}

\* ips in the order groupby("ip") yields them (sorted keys)
IpOrder == <<"198.51.100.7", "203.0.113.10">>

\* raw text of the line at each position of the input
Raws == <<"L1", "L2", "L3", "L4", "L5", "L6", "L7">>

Thresholds == {0, 1, 2, 3}
Windows == {-1, 0, 1}

Ev(t, ip, ts, user) == [event_type |-> t, ip |-> ip, timestamp |-> ts, username |-> user]

\* rows as parse_auth_log produces them, without the raw column; timestamps in seconds
Kinds ==
    { Ev("FAILED_LOGIN", "203.0.113.10", 0, "admin"),
      Ev("FAILED_LOGIN", "203.0.113.10", 60, "admin"),
      Ev("FAILED_LOGIN", "203.0.113.10", 61, "root"),
      Ev("FAILED_LOGIN", "198.51.100.7", 0, "admin"),
      Ev("FAILED_LOGIN", "203.0.113.10", NaT, "admin"),
      Ev("SUCCESS_LOGIN", "203.0.113.10", 60, "guenda"),
      Ev("SUCCESS_LOGIN", "203.0.113.10", 62, "guenda") }

WithRaw(ks) ==
    [i \in 1..Len(ks) |->
        [event_type |-> ks[i].event_type, ip |-> ks[i].ip, timestamp |-> ks[i].timestamp,
         username |-> ks[i].username, raw |-> Raws[i]]]

InputEvents == { WithRaw(ks) : ks \in UNION { [1..n -> Kinds] : n \in 0..MaxEvents } }

----------------------------------------------------------------------------
(* Helpers that model pandas / Python primitives *)

\* Series.notna() on the ip column (None) and on the timestamp column (NaT)
ip_notna(v) == v # None
timestamp_notna(v) == v # NaT

\* pd.Timedelta(minutes=window_minutes), in seconds
Timedelta(minutes) == minutes * 60

\* s[a:b] with 0-based a, b (Python slice, 0 <= a)
Slice(s, a, b) == IF b > a THEN SubSeq(s, a + 1, IF b > Len(s) THEN Len(s) ELSE b) ELSE <<>>

Max(a, b) == IF a >= b THEN a ELSE b

\* " | ".join(xs)
RECURSIVE Join(_)
Join(xs) ==
    IF xs = <<>> THEN ""
    ELSE IF Len(xs) = 1 THEN xs[1]
    ELSE xs[1] \o " | " \o Join(Tail(xs))

\* s.tail(3)
TailRows(s, n) == IF Len(s) <= n THEN s ELSE SubSeq(s, Len(s) - n + 1, Len(s))

Perms(n) == { p \in [1..n -> 1..n] : \A i, j \in 1..n : i # j => p[i] # p[j] }

\* the rows left in the order of the input
sort_values_InputOrder(s) == {s}

\* df.sort_values("timestamp"): ascending by timestamp; the default sort kind is
\* not stable, so rows with equal timestamps may come out in any order.
sort_values(s) ==
    { [i \in 1..Len(s) |-> s[p[i]]] : p \in
        { q \in Perms(Len(s)) : \A i \in 1..(Len(s) - 1) : s[q[i]].timestamp <= s[q[i + 1]].timestamp } }

\* keys of df.groupby("ip"), in iteration order (sorted)
GroupKeys(s) ==
    SelectSeq(IpOrder, LAMBDA ip : \E i \in 1..Len(s) : s[i].ip = ip)

\* the group of one ip: its rows in df order
Group(s, ip) == SelectSeq(s, LAMBDA r : r.ip = ip)

\* pd.DataFrame(columns=[...]) / pd.DataFrame(list of dicts): an empty list gives
\* a frame with no columns at all.
Frame(cols, rs) == [kind |-> "frame", columns |-> IF rs = <<>> THEN <<>> ELSE cols, rows |-> rs]
EmptyFrame(cols) == [kind |-> "frame", columns |-> cols, rows |-> <<>>]
Raised(exc) == [kind |-> "raised", exc |-> exc]
NoResult == [kind |-> "none"]

----------------------------------------------------------------------------
(* Rule A: detect_bruteforce_by_ip *)

IsFailure(r) == r.event_type = "FAILED_LOGIN" /\ ip_notna(r.ip) /\ timestamp_notna(r.timestamp)
IsSuccess(r) == r.event_type = "SUCCESS_LOGIN" /\ ip_notna(r.ip) /\ timestamp_notna(r.timestamp)

\* columns of the empty table returned when there are no failures
BruteForceEmptyColumns ==
    <<"alert_type", "severity", "ip", "start_time", "end_time", "count", "evidence">>

\* keys of the alert dict, in insertion order
BruteForceColumns(m) ==
    IF m = "detections"
    THEN <<"alert_type", "severity", "ip", "start_time", "end_time", "count", "evidence", "username">>
    ELSE <<"alert_type", "severity", "ip", "start_time", "end_time", "count", "evidence">>

\* the left edge evicted already at a gap equal to the window
Evicts_AtWindow(tr, tl, w) == tr - tl >= w

\* the window never shrunk
Evicts_Never(tr, tl, w) == FALSE

\* while times[right] - times[left] > window
Evicts(tr, tl, w) == tr - tl > w

\* an alert only above the threshold
Crosses_Above(count, th) == count > th

\* if count >= threshold
Crosses(count, th) == count >= th

\* evidence = " | ".join(raws[max(left, right - 2) : right + 1])
BruteForceEvidence(raws, l, r) == Join(Slice(raws, Max(l, r - 2), r + 1))

\* the alert dict appended for ip when the window [l, r] of group g crosses the threshold
BruteForceAlert(m, ip, g, l, r) ==
    LET base == [alert_type |-> "BRUTE_FORCE_IP", severity |-> "HIGH", ip |-> ip,
                 start_time |-> g[l + 1].timestamp, end_time |-> g[r + 1].timestamp,
                 count |-> r - l + 1,
                 evidence |-> BruteForceEvidence([i \in 1..Len(g) |-> g[i].raw], l, r)]
    IN  IF m = "detections"
        THEN [alert_type |-> base.alert_type, severity |-> base.severity, ip |-> base.ip,
              start_time |-> base.start_time, end_time |-> base.end_time, count |-> base.count,
              evidence |-> base.evidence, username |-> "multiple/unknown"]
        ELSE base

\* the scan of the group going on after an alert
AfterAlert_NoBreak(r, n) == [continue |-> TRUE, right |-> r]

\* what follows appending an alert at right = r in a group of n rows: break
AfterAlert(r, n) == [continue |-> FALSE, right |-> r]

\* the group being scanned
CurGroup == Group(df, Head(todo))

\* lines 21-38: filter, early return on an empty frame, sort
BruteForceFilter ==
    /\ pc = "call" /\ fn = "detect_bruteforce_by_ip"
    /\ LET f == SelectSeq(events, IsFailure) IN
        IF f = <<>>
        THEN /\ result' = EmptyFrame(BruteForceEmptyColumns)
             /\ pc' = "done"
             /\ UNCHANGED <<df, todo>>
        ELSE /\ df' \in sort_values(f)
             /\ todo' = GroupKeys(f)
             /\ pc' = "group"
             /\ UNCHANGED result
    /\ alerts' = <<>>
    /\ UNCHANGED <<parserVars, module, fn, events, threshold, window_minutes, left, right>>

\* line 41, 45, 48: take the next group, left = 0, right = 0
BruteForceNextGroup ==
    /\ pc = "group" /\ todo # <<>>
    /\ left' = 0 /\ right' = 0
    /\ pc' = "scan"
    /\ UNCHANGED <<parserVars, module, fn, events, threshold, window_minutes, df, todo, alerts, result>>

\* line 78: no group left, return pd.DataFrame(alerts)
BruteForceReturn ==
    /\ pc = "group" /\ todo = <<>>
    /\ result' = Frame(BruteForceColumns(module), alerts)
    /\ pc' = "done"
    /\ UNCHANGED <<parserVars, module, fn, events, threshold, window_minutes, df, todo, left, right, alerts>>

\* lines 50-51: one turn of the eviction loop
BruteForceEvict ==
    /\ pc = "scan" /\ left < Len(CurGroup)
    /\ Evicts(CurGroup[right + 1].timestamp, CurGroup[left + 1].timestamp, Timedelta(window_minutes))
    /\ left' = left + 1
    /\ UNCHANGED <<parserVars, module, fn, events, threshold, window_minutes, pc, df, todo, right, alerts, result>>

\* line 50: times[left] with left past the end of the list
BruteForceIndexError ==
    /\ pc = "scan" /\ left >= Len(CurGroup)
    /\ result' = Raised("IndexError")
    /\ pc' = "done"
    /\ UNCHANGED <<parserVars, module, fn, events, threshold, window_minutes, df, todo, left, right, alerts>>

\* lines 53-76 and the step of the for loop
BruteForceCheck ==
    /\ pc = "scan" /\ left < Len(CurGroup)
    /\ ~Evicts(CurGroup[right + 1].timestamp, CurGroup[left + 1].timestamp, Timedelta(window_minutes))
    /\ LET n == Len(CurGroup)
           hit == Crosses(right - left + 1, threshold)
           nxt == IF hit THEN AfterAlert(right, n) ELSE [continue |-> TRUE, right |-> right]
       IN  /\ alerts' = IF hit
                        THEN Append(alerts, BruteForceAlert(module, Head(todo), CurGroup, left, right))
                        ELSE alerts
           /\ IF nxt.continue /\ nxt.right + 1 < n
              THEN /\ right' = nxt.right + 1
                   /\ UNCHANGED <<pc, todo>>
              ELSE /\ pc' = "group"
                   /\ todo' = Tail(todo)
                   /\ UNCHANGED right
    /\ UNCHANGED <<parserVars, module, fn, events, threshold, window_minutes, df, left, result>>

----------------------------------------------------------------------------
(* Rule B: detect_success_after_failures.  In the top-level detections.py the
   name is defined twice and the second definition (lines 157-220) is the one
   in effect. *)

\* columns of the empty table returned when there are no failures or no successes
SuccessAfterEmptyColumns(m) ==
    IF m = "detections"
    THEN <<"alert_type", "severity", "ip", "username", "start_time", "end_time", "count", "evidence">>
    ELSE <<"alert_type", "severity", "ip", "username", "success_time", "failure_count", "evidence">>

\* keys of the alert dict, in insertion order
SuccessAfterColumns(m) ==
    IF m = "detections"
    THEN <<"alert_type", "severity", "ip", "username", "start_time", "end_time", "count", "evidence">>
    ELSE <<"alert_type", "severity", "ip", "username", "success_time", "failure_count", "evidence">>

\* (failures["timestamp"] >= success_time - window) & (failures["timestamp"] < success_time)
InLookback(ft, st, w) == ft >= st - w /\ ft < st

\* recent_failures: the failures of the success's ip in its lookback interval, in failures order
RecentFailures(failures, s, w) ==
    SelectSeq(failures, LAMBDA f : f.ip = s.ip /\ InLookback(f.timestamp, s.timestamp, w))

\* if failure_count >= failure_threshold
EnoughFailures(count, th) == count >= th

\* recent_failures["timestamp"].min()
MinTimestamp(rs) ==
    IF rs = <<>> THEN NaT
    ELSE CHOOSE t \in { rs[i].timestamp : i \in 1..Len(rs) } :
             \A i \in 1..Len(rs) : t <= rs[i].timestamp

\* evidence: recent_failures.tail(3)["raw"] + [success["raw"]], joined
SuccessAfterEvidence(recent, s) ==
    LET last == TailRows(recent, 3)
    IN  Join(Append([i \in 1..Len(last) |-> last[i].raw], s.raw))

\* the alert dict appended for success s with recent failures recent
SuccessAfterAlert(m, s, recent) ==
    IF m = "detections"
    THEN [alert_type |-> "SUCCESS_AFTER_FAILURES", severity |-> "HIGH", ip |-> s.ip,
          username |-> s.username, start_time |-> MinTimestamp(recent),
          end_time |-> s.timestamp, count |-> Len(recent),
          evidence |-> SuccessAfterEvidence(recent, s)]
    ELSE [alert_type |-> "SUCCESS_AFTER_FAILURES", severity |-> "HIGH", ip |-> s.ip,
          username |-> s.username, success_time |-> s.timestamp,
          failure_count |-> Len(recent),
          evidence |-> SuccessAfterEvidence(recent, s)]

\* a success of an IP that has an alert already is passed over
VisitSuccess_OncePerIp(m, acc, failures, s, th, w) ==
    LET recent == RecentFailures(failures, s, w)
    IN  IF EnoughFailures(Len(recent), th) /\ \A i \in 1..Len(acc) : acc[i].ip # s.ip
        THEN Append(acc, SuccessAfterAlert(m, s, recent))
        ELSE acc

\* the alerts list after visiting success s
VisitSuccess(m, acc, failures, s, th, w) ==
    LET recent == RecentFailures(failures, s, w)
    IN  IF EnoughFailures(Len(recent), th)
        THEN Append(acc, SuccessAfterAlert(m, s, recent))
        ELSE acc

\* the two filters, the early return on an empty subset
SuccessAfterFilter ==
    /\ pc = "call" /\ fn = "detect_success_after_failures"
    /\ LET failures == SelectSeq(events, IsFailure)
           successes == SelectSeq(events, IsSuccess)
       IN  IF failures = <<>> \/ successes = <<>>
           THEN /\ result' = EmptyFrame(SuccessAfterEmptyColumns(module))
                /\ pc' = "done"
                /\ UNCHANGED <<df, todo>>
           ELSE /\ df' = failures
                /\ todo' = successes
                /\ pc' = "iter"
                /\ UNCHANGED result
    /\ alerts' = <<>>
    /\ UNCHANGED <<parserVars, module, fn, events, threshold, window_minutes, left, right>>

\* one turn of "for _, success in successes.iterrows()"
SuccessAfterIter ==
    /\ pc = "iter" /\ todo # <<>>
    /\ alerts' = VisitSuccess(module, alerts, df, Head(todo), threshold, Timedelta(window_minutes))
    /\ todo' = Tail(todo)
    /\ UNCHANGED <<parserVars, module, fn, events, threshold, window_minutes, pc, df, left, right, result>>

\* return pd.DataFrame(alerts)
SuccessAfterReturn ==
    /\ pc = "iter" /\ todo = <<>>
    /\ result' = Frame(SuccessAfterColumns(module), alerts)
    /\ pc' = "done"
    /\ UNCHANGED <<parserVars, module, fn, events, threshold, window_minutes, df, todo, left, right, alerts>>

----------------------------------------------------------------------------

Init ==
    /\ module \in Modules
    /\ fn \in {"detect_bruteforce_by_ip", "detect_success_after_failures"}
    /\ events \in InputEvents
    /\ threshold \in Thresholds
    /\ window_minutes \in Windows
    /\ pc = "call"
    /\ df = <<>> /\ todo = <<>> /\ left = 0 /\ right = 0 /\ alerts = <<>>
    /\ result = NoResult
    /\ exists = TRUE /\ lines = <<>> /\ year = 0 /\ rows = <<>>

Next ==
    \/ BruteForceFilter
    \/ BruteForceNextGroup
    \/ BruteForceReturn
    \/ BruteForceEvict
    \/ BruteForceIndexError
    \/ BruteForceCheck
    \/ SuccessAfterFilter
    \/ SuccessAfterIter
    \/ SuccessAfterReturn

Spec == Init /\ [][Next]_vars

----------------------------------------------------------------------------
(* parse_auth_log (src/parser.py).  A line is a sequence of characters. *)

\* 'Jan 28 21:10:01 ubuntu sshd[1111]: Failed password for invalid user admin from 203.0.113.10 port 40111 ssh2'
LineFailed ==
  <<
    "J","a","n"," ","2","8"," ","2","1",":","1","0",":","0","1"," ","u","b","u","n","t","u"," ",
    "s","s","h","d","[","1","1","1","1","]",":"," ","F","a","i","l","e","d"," ","p","a","s","s",
    "w","o","r","d"," ","f","o","r"," ","i","n","v","a","l","i","d"," ","u","s","e","r"," ","a",
    "d","m","i","n"," ","f","r","o","m"," ","2","0","3",".","0",".","1","1","3",".","1","0"," ",
    "p","o","r","t"," ","4","0","1","1","1"," ","s","s","h","2"
  >>

\* '  Jan 28 21:12:30 ubuntu sshd[1111]: Accepted password for guenda from 203.0.113.10 port 40222 ssh2 '
LineAccepted ==
  <<
    " "," ","J","a","n"," ","2","8"," ","2","1",":","1","2",":","3","0"," ","u","b","u","n","t",
    "u"," ","s","s","h","d","[","1","1","1","1","]",":"," ","A","c","c","e","p","t","e","d"," ",
    "p","a","s","s","w","o","r","d"," ","f","o","r"," ","g","u","e","n","d","a"," ","f","r","o",
    "m"," ","2","0","3",".","0",".","1","1","3",".","1","0"," ","p","o","r","t"," ","4","0","2",
    "2","2"," ","s","s","h","2"," "
  >>

\* 'Jan  8 21:13:00 ubuntu sudo:   guenda : TTY=pts/0 ; COMMAND=/bin/ls'
LineSudo ==
  <<
    "J","a","n"," "," ","8"," ","2","1",":","1","3",":","0","0"," ","u","b","u","n","t","u"," ",
    "s","u","d","o",":"," "," "," ","g","u","e","n","d","a"," ",":"," ","T","T","Y","=","p","t",
    "s","/","0"," ",";"," ","C","O","M","M","A","N","D","=","/","b","i","n","/","l","s"
  >>

\* 'Dec 31 23:59:59 ubuntu cron[7]: job started'
LineCron ==
  <<
    "D","e","c"," ","3","1"," ","2","3",":","5","9",":","5","9"," ","u","b","u","n","t","u"," ",
    "c","r","o","n","[","7","]",":"," ","j","o","b"," ","s","t","a","r","t","e","d"
  >>

\* 'Jan 28 21:12:31 ubuntu sshd[1111]: pam_unix(sshd:session): session opened'
LineSession ==
  <<
    "J","a","n"," ","2","8"," ","2","1",":","1","2",":","3","1"," ","u","b","u","n","t","u"," ",
    "s","s","h","d","[","1","1","1","1","]",":"," ","p","a","m","_","u","n","i","x","(","s","s",
    "h","d",":","s","e","s","s","i","o","n",")",":"," ","s","e","s","s","i","o","n"," ","o","p",
    "e","n","e","d"
  >>

\* 'Jan 28 21:15:00 ubuntu sshd: bob : Accepted password for eve from 198.51.100.7 Failed password for root from 203.0.113.10'
LineMixed ==
  <<
    "J","a","n"," ","2","8"," ","2","1",":","1","5",":","0","0"," ","u","b","u","n","t","u"," ",
    "s","s","h","d",":"," ","b","o","b"," ",":"," ","A","c","c","e","p","t","e","d"," ","p","a",
    "s","s","w","o","r","d"," ","f","o","r"," ","e","v","e"," ","f","r","o","m"," ","1","9","8",
    ".","5","1",".","1","0","0",".","7"," ","F","a","i","l","e","d"," ","p","a","s","s","w","o",
    "r","d"," ","f","o","r"," ","r","o","o","t"," ","f","r","o","m"," ","2","0","3",".","0",".",
    "1","1","3",".","1","0"
  >>

\* 'Jan 28 21:16:00 ubuntu sshd: bob : Accepted password for eve from 198.51.100.7'
LineSudoAccepted ==
  <<
    "J","a","n"," ","2","8"," ","2","1",":","1","6",":","0","0"," ","u","b","u","n","t","u"," ",
    "s","s","h","d",":"," ","b","o","b"," ",":"," ","A","c","c","e","p","t","e","d"," ","p","a",
    "s","s","w","o","r","d"," ","f","o","r"," ","e","v","e"," ","f","r","o","m"," ","1","9","8",
    ".","5","1",".","1","0","0",".","7"
  >>

\* 'kernel: panic at 21:10'
LineGarbled ==
  <<
    "k","e","r","n","e","l",":"," ","p","a","n","i","c"," ","a","t"," ","2","1",":","1","0"
  >>

\* ''
LineBlank == <<>>

\* ' \t '
LineSpaces ==
  <<
    " ","\t"," "
  >>

\* 'Feb 29 10:00:00 ubuntu sshd[2]: Failed password for root from 198.51.100.7'
LineLeapDay ==
  <<
    "F","e","b"," ","2","9"," ","1","0",":","0","0",":","0","0"," ","u","b","u","n","t","u"," ",
    "s","s","h","d","[","2","]",":"," ","F","a","i","l","e","d"," ","p","a","s","s","w","o","r",
    "d"," ","f","o","r"," ","r","o","o","t"," ","f","r","o","m"," ","1","9","8",".","5","1",".",
    "1","0","0",".","7"
  >>

\* 'Feb 30 10:00:00 ubuntu sshd[2]: Failed password for root from 198.51.100.7'
LineFeb30 ==
  <<
    "F","e","b"," ","3","0"," ","1","0",":","0","0",":","0","0"," ","u","b","u","n","t","u"," ",
    "s","s","h","d","[","2","]",":"," ","F","a","i","l","e","d"," ","p","a","s","s","w","o","r",
    "d"," ","f","o","r"," ","r","o","o","t"," ","f","r","o","m"," ","1","9","8",".","5","1",".",
    "1","0","0",".","7"
  >>

\* 'Foo 12 10:00:00 ubuntu sshd[2]: session closed'
LineBadMonth ==
  <<
    "F","o","o"," ","1","2"," ","1","0",":","0","0",":","0","0"," ","u","b","u","n","t","u"," ",
    "s","s","h","d","[","2","]",":"," ","s","e","s","s","i","o","n"," ","c","l","o","s","e","d"
  >>

\* 'Jan 12 24:00:00 ubuntu sshd[2]: session closed'
LineBadHour ==
  <<
    "J","a","n"," ","1","2"," ","2","4",":","0","0",":","0","0"," ","u","b","u","n","t","u"," ",
    "s","s","h","d","[","2","]",":"," ","s","e","s","s","i","o","n"," ","c","l","o","s","e","d"
  >>

SampleLines ==
    { LineFailed, LineAccepted, LineSudo, LineCron, LineSession, LineMixed, LineSudoAccepted,
      LineGarbled, LineBlank, LineSpaces, LineLeapDay, LineFeb30, LineBadMonth, LineBadHour }

InputLines == UNION { [1..n -> SampleLines] : n \in 0..MaxLines }

\* 2023 is a common year, 2024 a leap year
Years == {2023, 2024}

Digits == <<"0", "1", "2", "3", "4", "5", "6", "7", "8", "9">>
LowerCase ==
    <<"a", "b", "c", "d", "e", "f", "g", "h", "i", "j", "k", "l", "m",
      "n", "o", "p", "q", "r", "s", "t", "u", "v", "w", "x", "y", "z">>
UpperCase ==
    <<"A", "B", "C", "D", "E", "F", "G", "H", "I", "J", "K", "L", "M",
      "N", "O", "P", "Q", "R", "S", "T", "U", "V", "W", "X", "Y", "Z">>

Range(f) == { f[i] : i \in DOMAIN f }

\* the character classes \d, \w, \s
DigitChars == Range(Digits)
WordChars == Range(Digits) \cup Range(LowerCase) \cup Range(UpperCase) \cup {"_"}
SpaceChars == {" ", "\t"}

IsDigit(c) == c \in DigitChars

\* the end of a greedy run of characters of class C (inside = TRUE) or of
\* characters outside C (inside = FALSE) that starts at i: the first j >= i
\* with j past the end of s or s[j] not in the run
SpanEnd(s, i, C, inside) ==
    CHOOSE j \in i..(Len(s) + 1) :
        /\ j = Len(s) + 1 \/ (s[j] \in C) # inside
        /\ \A k \in i..(j - 1) : (s[k] \in C) = inside

\* the literal lit at position i of s
LitAt(s, i, lit) == i + Len(lit) - 1 <= Len(s) /\ SubSeq(s, i, i + Len(lit) - 1) = lit

\* line.strip() / msg.lstrip()
strip(s) ==
    LET a == SpanEnd(s, 1, SpaceChars, TRUE)
    IN  IF a > Len(s) THEN <<>>
        ELSE SubSeq(s, a, CHOOSE b \in a..Len(s) :
                              s[b] \notin SpaceChars /\ \A k \in (b + 1)..Len(s) : s[k] \in SpaceChars)
lstrip(s) == SubSeq(s, SpanEnd(s, 1, SpaceChars, TRUE), Len(s))

\* the Python str of a character sequence
RECURSIVE Str(_)
Str(s) ==
    IF s = <<>> THEN ""
    ELSE IF Len(s) = 1 THEN s[1]
    ELSE Str(SubSeq(s, 1, Len(s) \div 2)) \o Str(SubSeq(s, Len(s) \div 2 + 1, Len(s)))

\* \d{2}:\d{2}:\d{2}
IsTime(t) ==
    /\ Len(t) = 8
    /\ \A k \in {1, 2, 4, 5, 7, 8} : IsDigit(t[k])
    /\ t[3] = ":" /\ t[6] = ":"

NoMatch == [ok |-> FALSE]

\* PREFIX_RE.match(raw): every quantifier of the pattern is followed by a
\* character outside its class, so the greedy runs are the only way to match
PREFIX_RE(s) ==
    LET n == Len(s)
        a == SpanEnd(s, 4, SpaceChars, TRUE)
        dEnd == SpanEnd(s, a, DigitChars, TRUE)
        b == SpanEnd(s, dEnd, SpaceChars, TRUE)
        tEnd == b + 8
        c == SpanEnd(s, tEnd, SpaceChars, TRUE)
        hEnd == SpanEnd(s, c, SpaceChars, FALSE)
        d == SpanEnd(s, hEnd, SpaceChars, TRUE)
        vEnd == SpanEnd(s, d, WordChars, TRUE)
        pEnd == SpanEnd(s, vEnd + 1, DigitChars, TRUE)
        hasPid == /\ vEnd <= n /\ s[vEnd] = "["
                  /\ pEnd > vEnd + 1 /\ pEnd <= n /\ s[pEnd] = "]"
        e == IF hasPid THEN pEnd + 1 ELSE vEnd
        f == SpanEnd(s, e + 1, SpaceChars, TRUE)
        ok == /\ n >= 4 /\ \A k \in 1..3 : s[k] \in WordChars
              /\ a > 4
              /\ dEnd - a \in {1, 2}
              /\ b > dEnd
              /\ tEnd - 1 <= n /\ IsTime(SubSeq(s, b, b + 7))
              /\ c > tEnd
              /\ hEnd > c
              /\ d > hEnd
              /\ vEnd > d
              /\ e <= n /\ s[e] = ":"
              /\ f > e + 1
    IN  IF ok
        THEN [ok |-> TRUE, mon |-> SubSeq(s, 1, 3), day |-> SubSeq(s, a, dEnd - 1),
              time |-> SubSeq(s, b, b + 7), host |-> SubSeq(s, c, hEnd - 1),
              service |-> SubSeq(s, d, vEnd - 1), message |-> SubSeq(s, f, n)]
        ELSE NoMatch

\* (?P<user>\S+) from (?P<ip>\d+\.\d+\.\d+\.\d+) at position i of s
UserFromIp(s, i) ==
    LET n == Len(s)
        uEnd == SpanEnd(s, i, SpaceChars, FALSE)
        p1 == uEnd + 6
        q1 == SpanEnd(s, p1, DigitChars, TRUE)
        q2 == SpanEnd(s, q1 + 1, DigitChars, TRUE)
        q3 == SpanEnd(s, q2 + 1, DigitChars, TRUE)
        q4 == SpanEnd(s, q3 + 1, DigitChars, TRUE)
        ok == /\ uEnd > i
              /\ LitAt(s, uEnd, <<" ", "f", "r", "o", "m", " ">>)
              /\ q1 > p1 /\ q1 <= n /\ s[q1] = "."
              /\ q2 > q1 + 1 /\ q2 <= n /\ s[q2] = "."
              /\ q3 > q2 + 1 /\ q3 <= n /\ s[q3] = "."
              /\ q4 > q3 + 1
    IN  IF ok THEN [ok |-> TRUE, user |-> SubSeq(s, i, uEnd - 1), ip |-> SubSeq(s, p1, q4 - 1)]
        ELSE NoMatch

FailedLit ==
    <<"F", "a", "i", "l", "e", "d", " ", "p", "a", "s", "s", "w", "o", "r", "d", " ", "f", "o", "r", " ">>
AcceptedLit ==
    <<"A", "c", "c", "e", "p", "t", "e", "d", " ", "p", "a", "s", "s", "w", "o", "r", "d", " ",
      "f", "o", "r", " ">>
InvalidUserLit == <<"i", "n", "v", "a", "l", "i", "d", " ", "u", "s", "e", "r", " ">>

\* FAILED_RE at position p: the optional "invalid user " is tried first
FailedAt(s, p) ==
    IF ~LitAt(s, p, FailedLit) THEN NoMatch
    ELSE LET i == p + Len(FailedLit)
             long == IF LitAt(s, i, InvalidUserLit)
                     THEN UserFromIp(s, i + Len(InvalidUserLit)) ELSE NoMatch
         IN  IF long.ok THEN long ELSE UserFromIp(s, i)

\* ACCEPTED_RE at position p
AcceptedAt(s, p) ==
    IF ~LitAt(s, p, AcceptedLit) THEN NoMatch ELSE UserFromIp(s, p + Len(AcceptedLit))

\* FAILED_RE.search(msg): the match at the leftmost position that has one
FAILED_RE(msg) ==
    LET hits == { p \in 1..Len(msg) : FailedAt(msg, p).ok }
    IN  IF hits = {} THEN NoMatch
        ELSE FailedAt(msg, CHOOSE p \in hits : \A q \in hits : p <= q)

\* ACCEPTED_RE.search(msg)
ACCEPTED_RE(msg) ==
    LET hits == { p \in 1..Len(msg) : AcceptedAt(msg, p).ok }
    IN  IF hits = {} THEN NoMatch
        ELSE AcceptedAt(msg, CHOOSE p \in hits : \A q \in hits : p <= q)

\* SUDO_RE.search(msg): ^(?P<user>\S+)\s*: -- the longest prefix of the first
\* run of non-space characters that is followed by optional blanks and ":"
SUDO_RE(msg) ==
    LET n == Len(msg)
        run == SpanEnd(msg, 1, SpaceChars, FALSE) - 1
        colon == SpanEnd(msg, run + 1, SpaceChars, TRUE)
        fits == { k \in 1..run :
                    IF k < run THEN msg[k + 1] = ":" ELSE colon <= n /\ msg[colon] = ":" }
    IN  IF fits = {} THEN NoMatch
        ELSE [ok |-> TRUE, user |-> SubSeq(msg, 1, CHOOSE k \in fits : \A j \in fits : j <= k)]

\* %b: the month abbreviations, matched without regard to case
MonthAbbr ==
    << <<"j", "a", "n">>, <<"f", "e", "b">>, <<"m", "a", "r">>, <<"a", "p", "r">>,
       <<"m", "a", "y">>, <<"j", "u", "n">>, <<"j", "u", "l">>, <<"a", "u", "g">>,
       <<"s", "e", "p">>, <<"o", "c", "t">>, <<"n", "o", "v">>, <<"d", "e", "c">> >>

ToLower(c) ==
    IF c \in Range(UpperCase) THEN LowerCase[CHOOSE i \in 1..26 : UpperCase[i] = c] ELSE c

\* 0 when mon is no month abbreviation
MonthNumber(mon) ==
    LET low == [i \in 1..Len(mon) |-> ToLower(mon[i])]
    IN  IF \E m \in 1..12 : MonthAbbr[m] = low
        THEN CHOOSE m \in 1..12 : MonthAbbr[m] = low ELSE 0

DigitValue(c) == (CHOOSE i \in 1..10 : Digits[i] = c) - 1

RECURSIVE Number(_)
Number(ds) == IF ds = <<>> THEN 0 ELSE Number(SubSeq(ds, 1, Len(ds) - 1)) * 10 + DigitValue(ds[Len(ds)])

IsLeap(y) == (y % 4 = 0 /\ y % 100 # 0) \/ y % 400 = 0

DaysInMonth(y, m) ==
    IF m = 2 THEN (IF IsLeap(y) THEN 29 ELSE 28)
    ELSE IF m \in {4, 6, 9, 11} THEN 30 ELSE 31

RECURSIVE DaysBeforeMonth(_, _)
DaysBeforeMonth(y, m) == IF m = 1 THEN 0 ELSE DaysBeforeMonth(y, m - 1) + DaysInMonth(y, m - 1)

\* leap years among the years 1..y
LeapYearsThrough(y) == (y \div 4) - (y \div 100) + (y \div 400)

\* days from 1970-01-01 to January 1st of year y
DaysBeforeYear(y) == 365 * (y - 1970) + LeapYearsThrough(y - 1) - LeapYearsThrough(1969)

\* datetime.strptime(f"{year} {mon} {day} {time_str}", "%Y %b %d %H:%M:%S"):
\* ValueError (ok = FALSE) unless the fields form a calendar date and time;
\* the value is in seconds since 1970-01-01 00:00:00
_parse_timestamp(mon, day, time_str, y) ==
    LET m == MonthNumber(mon)
        d == Number(day)
        hh == Number(SubSeq(time_str, 1, 2))
        mm == Number(SubSeq(time_str, 4, 5))
        ss == Number(SubSeq(time_str, 7, 8))
    IN  IF m # 0 /\ d >= 1 /\ d <= DaysInMonth(y, m) /\ hh <= 23 /\ mm <= 59 /\ ss <= 59
        THEN [ok |-> TRUE,
              value |-> (DaysBeforeYear(y) + DaysBeforeMonth(y, m) + d - 1) * 86400
                        + hh * 3600 + mm * 60 + ss]
        ELSE NoMatch

\* the accepted rule tested before the failed rule
Classify_AcceptedFirst(msg) ==
    LET m_failed == FAILED_RE(msg)
        m_acc == ACCEPTED_RE(msg)
        m_sudo == SUDO_RE(msg)
    IN  IF m_acc.ok
        THEN [event_type |-> "SUCCESS_LOGIN", username |-> Str(m_acc.user), ip |-> Str(m_acc.ip)]
        ELSE IF m_failed.ok
        THEN [event_type |-> "FAILED_LOGIN", username |-> Str(m_failed.user), ip |-> Str(m_failed.ip)]
        ELSE IF m_sudo.ok
        THEN [event_type |-> "SUDO", username |-> Str(m_sudo.user), ip |-> None]
        ELSE [event_type |-> "OTHER", username |-> None, ip |-> None]

\* lines 96-117: the type, username and ip of a message, by rule priority
Classify(msg) ==
    LET m_failed == FAILED_RE(msg)
        m_acc == ACCEPTED_RE(msg)
        m_sudo == SUDO_RE(msg)
    IN  IF m_failed.ok
        THEN [event_type |-> "FAILED_LOGIN", username |-> Str(m_failed.user), ip |-> Str(m_failed.ip)]
        ELSE IF m_acc.ok
        THEN [event_type |-> "SUCCESS_LOGIN", username |-> Str(m_acc.user), ip |-> Str(m_acc.ip)]
        ELSE IF m_sudo.ok
        THEN [event_type |-> "SUDO", username |-> Str(m_sudo.user), ip |-> None]
        ELSE [event_type |-> "OTHER", username |-> None, ip |-> None]

\* lines 78-88: the row of a line that does not match the prefix
OtherRow(raw) ==
    [timestamp |-> NaT, host |-> None, service |-> None, event_type |-> "OTHER",
     username |-> None, ip |-> None, raw |-> Str(raw)]

\* lines 92-129: the row of a line that matches the prefix, given its timestamp
EventRow(raw, m, ts) ==
    LET c == Classify(lstrip(m.message))
    IN  [timestamp |-> ts, host |-> Str(m.host), service |-> Str(m.service),
         event_type |-> c.event_type, username |-> c.username, ip |-> c.ip, raw |-> Str(raw)]

\* pd.to_datetime(..., errors="coerce") on one value: a datetime outside the
\* range of a nanosecond timestamp (1677-09-21 .. 2262-04-11) becomes NaT
to_datetime(ts) ==
    IF ts = NaT THEN NaT
    ELSE IF ts \div 86400 < DaysBeforeYear(1678) \/ ts \div 86400 >= DaysBeforeYear(2262) THEN NaT
    ELSE ts

EventColumns == <<"timestamp", "host", "service", "event_type", "username", "ip", "raw">>

\* lines 58-65: the existence check
ParseOpen ==
    /\ pc = "call" /\ fn = "parse_auth_log"
    /\ IF ~exists
       THEN /\ result' = Raised("FileNotFoundError")
            /\ pc' = "done"
            /\ UNCHANGED todo
       ELSE /\ todo' = lines
            /\ pc' = "lines"
            /\ UNCHANGED result
    /\ rows' = <<>>
    /\ UNCHANGED <<module, fn, events, threshold, window_minutes, df, left, right, alerts,
                   exists, lines, year>>

\* lines 68-129: one turn of the loop over the lines
ParseLine ==
    /\ pc = "lines" /\ todo # <<>>
    /\ LET raw == strip(Head(todo))
           m == PREFIX_RE(raw)
           ts == _parse_timestamp(m.mon, m.day, m.time, year)
       IN  IF raw = <<>>
           THEN /\ todo' = Tail(todo)
                /\ UNCHANGED <<rows, pc, result>>
           ELSE IF ~m.ok
           THEN /\ rows' = Append(rows, OtherRow(raw))
                /\ todo' = Tail(todo)
                /\ UNCHANGED <<pc, result>>
           ELSE IF ~ts.ok
           THEN /\ result' = Raised("ValueError")
                /\ pc' = "done"
                /\ UNCHANGED <<rows, todo>>
           ELSE /\ rows' = Append(rows, EventRow(raw, m, ts.value))
                /\ todo' = Tail(todo)
                /\ UNCHANGED <<pc, result>>
    /\ UNCHANGED <<module, fn, events, threshold, window_minutes, df, left, right, alerts,
                   exists, lines, year>>

\* lines 131-133: pd.DataFrame(rows) of an empty list has no column, so
\* df["timestamp"] raises KeyError
ParseReturn ==
    /\ pc = "lines" /\ todo = <<>>
    /\ result' = IF rows = <<>> THEN Raised("KeyError")
                 ELSE Frame(EventColumns,
                            [i \in 1..Len(rows) |->
                                [rows[i] EXCEPT !.timestamp = to_datetime(rows[i].timestamp)]])
    /\ pc' = "done"
    /\ UNCHANGED <<module, fn, events, threshold, window_minutes, df, todo, left, right, alerts,
                   parserVars>>

InitParse ==
    /\ module = "src.parser"
    /\ fn = "parse_auth_log"
    /\ exists \in BOOLEAN
    /\ lines \in InputLines
    /\ ~exists => lines = <<>>
    /\ year \in Years
    /\ rows = <<>>
    /\ events = <<>> /\ threshold = 0 /\ window_minutes = 0
    /\ pc = "call"
    /\ df = <<>> /\ todo = <<>> /\ left = 0 /\ right = 0 /\ alerts = <<>>
    /\ result = NoResult

NextParse ==
    \/ ParseOpen
    \/ ParseLine
    \/ ParseReturn

SpecParse == InitParse /\ [][NextParse]_vars

----------------------------------------------------------------------------
(* What the claims speak of, computed from the input alone *)

IPs == { IpOrder[i] : i \in 1..Len(IpOrder) }

RuleA == fn = "detect_bruteforce_by_ip"
RuleB == fn = "detect_success_after_failures"

Window == Timedelta(window_minutes)

RECURSIVE InsertSorted(_, _)
InsertSorted(t, s) ==
    IF s = <<>> THEN <<t>>
    ELSE IF t <= Head(s) THEN <<t>> \o s
    ELSE <<Head(s)>> \o InsertSorted(t, Tail(s))

RECURSIVE SortAscending(_)
SortAscending(s) == IF s = <<>> THEN <<>> ELSE InsertSorted(Head(s), SortAscending(Tail(s)))

\* the failures of ip that have a timestamp, in input order
FailuresOf(ip) ==
    SelectSeq(events, LAMBDA r : r.event_type = "FAILED_LOGIN" /\ r.ip = ip /\ r.timestamp # NaT)

\* their timestamps, ascending
FailureTimes(ip) ==
    LET f == FailuresOf(ip) IN SortAscending([i \in 1..Len(f) |-> f[i].timestamp])

\* the starts k of the runs of th consecutive entries of ts whose last minus first is <= w
Bursts(ts, th, w) ==
    { k \in 1..Len(ts) : k + th - 1 <= Len(ts) /\ ts[k + th - 1] - ts[k] <= w }

\* the rows of the returned table that name ip
RowsFor(ip) ==
    IF result.kind = "frame" THEN SelectSeq(result.rows, LAMBDA a : a.ip = ip) ELSE <<>>

ColumnSet(frame) == { frame.columns[i] : i \in 1..Len(frame.columns) }

AlertColumns ==
    {"alert_type", "severity", "ip", "username", "start_time", "end_time", "count", "evidence"}

\* C4: Rule A, threshold >= 1: an ip with exactly threshold failures, all within
\* the window, gets exactly one BRUTE_FORCE_IP alert with count = threshold; an
\* ip with fewer than threshold failures gets no row in the alert table.
C4_ExactlyThresholdAlertsOnce ==
    (pc = "done" /\ RuleA /\ threshold >= 1) =>
        \A ip \in IPs :
            LET ts == FailureTimes(ip)
                n == Len(ts)
            IN  /\ (n = threshold /\ ts[n] - ts[1] <= Window) =>
                       /\ result.kind = "frame"
                       /\ Len(RowsFor(ip)) = 1
                       /\ RowsFor(ip)[1].alert_type = "BRUTE_FORCE_IP"
                       /\ RowsFor(ip)[1].count = threshold
                /\ (n < threshold) => RowsFor(ip) = <<>>

\* an ip with exactly threshold >= 2 failures in the window is alerted while
\* another ip with fewer failures is scanned too
C4_Witness ==
    /\ pc = "done" /\ RuleA /\ threshold >= 2 /\ result.kind = "frame"
    /\ \E ip \in IPs :
          /\ Len(FailureTimes(ip)) = threshold
          /\ FailureTimes(ip)[threshold] - FailureTimes(ip)[1] <= Window
          /\ Len(RowsFor(ip)) = 1
    /\ \E ip \in IPs : Len(FailureTimes(ip)) \in 1..(threshold - 1) /\ RowsFor(ip) = <<>>

\* C5: for every input, threshold and window, Rule A reports at most one alert
\* per ip: in the alerts list at every step and in the returned table.
C5_AtMostOneAlertPerIp ==
    RuleA =>
        /\ \A i, j \in 1..Len(alerts) : i # j => alerts[i].ip # alerts[j].ip
        /\ \A ip \in IPs : Len(RowsFor(ip)) <= 1

\* an alerted ip with more than one qualifying sub-window
C5_Witness ==
    /\ pc = "done" /\ RuleA /\ threshold >= 1
    /\ \E ip \in IPs :
          /\ Len(RowsFor(ip)) = 1
          /\ Cardinality(Bursts(FailureTimes(ip), threshold, Window)) >= 2

\* the timestamps of the group being scanned, 0-based like times[] in the code
ScanTime(i) == CurGroup[i + 1].timestamp

\* C9: Rule A, threshold >= 1 and window >= 0: during the scan every entry left
\* of the left cursor is strictly more than window before times[right] (only a
\* strictly greater gap evicts), and an ip is in the returned table if and
\* only if its sorted failure times hold threshold consecutive entries whose
\* last minus first is <= window.
C9_ClosedWindow ==
    (RuleA /\ threshold >= 1 /\ window_minutes >= 0) =>
        /\ pc = "scan" => \A j \in 0..(left - 1) : ScanTime(right) - ScanTime(j) > Window
        /\ pc = "done" =>
              /\ result.kind = "frame"
              /\ \A ip \in IPs :
                    RowsFor(ip) # <<>> <=> Bursts(FailureTimes(ip), threshold, Window) # {}

\* an alert whose first and last failure are exactly window > 0 apart
C9_Witness ==
    /\ pc = "done" /\ RuleA /\ threshold >= 2 /\ window_minutes > 0
    /\ \E ip \in IPs :
          /\ Len(RowsFor(ip)) = 1
          /\ RowsFor(ip)[1].end_time - RowsFor(ip)[1].start_time = Window
          /\ RowsFor(ip)[1].count = threshold

\* the successes with ip and timestamp, in input order
Successes ==
    SelectSeq(events, LAMBDA r : r.event_type = "SUCCESS_LOGIN" /\ r.ip # None /\ r.timestamp # NaT)

\* the positions of the failures counted for success s: same ip, timestamp t with
\* s.timestamp - window <= t < s.timestamp
Counted(s) ==
    { i \in 1..Len(events) :
        /\ events[i].event_type = "FAILED_LOGIN" /\ events[i].ip = s.ip /\ events[i].timestamp # NaT
        /\ s.timestamp - Window <= events[i].timestamp
        /\ events[i].timestamp < s.timestamp }

Qualifies(s) == Cardinality(Counted(s)) >= threshold

\* the successes the loop of Rule B has visited so far
Visited == SubSeq(Successes, 1, Len(Successes) - Len(todo))

MinOf(S) == CHOOSE t \in S : \A u \in S : t <= u

\* C6: Rule B: the alert emitted for a success s with at least failure_threshold
\* counted failures has alert_type SUCCESS_AFTER_FAILURES, ip = s.ip,
\* username = s.username, start_time = the earliest counted failure,
\* end_time = s.timestamp, count = the number of counted failures, and
\* start_time < end_time.
C6_AlertFields ==
    (RuleB /\ pc = "iter") =>
        LET q == SelectSeq(Visited, Qualifies)
        IN  /\ Len(alerts) = Len(q)
            /\ \A i \in 1..Len(alerts) :
                  LET a == alerts[i]
                      c == Counted(q[i])
                  IN  /\ {"alert_type", "ip", "username", "start_time", "end_time", "count"}
                             \subseteq DOMAIN a
                      /\ a.alert_type = "SUCCESS_AFTER_FAILURES"
                      /\ a.ip = q[i].ip
                      /\ a.username = q[i].username
                      /\ a.end_time = q[i].timestamp
                      /\ a.count = Cardinality(c)
                      /\ c # {} => /\ a.start_time = MinOf({ events[j].timestamp : j \in c })
                                   /\ a.start_time < a.end_time

\* the time of the success an alert row of Rule B was emitted for
AlertSuccessTime(a) == IF "end_time" \in DOMAIN a THEN a.end_time ELSE a.success_time

\* the returned table has one row per qualifying success, in input order
OneAlertPerQualifyingSuccess ==
    LET q == SelectSeq(Successes, Qualifies)
    IN  /\ result.kind = "frame"
        /\ Len(result.rows) = Len(q)
        /\ \A i \in 1..Len(q) :
              /\ result.rows[i].ip = q[i].ip
              /\ result.rows[i].username = q[i].username
              /\ AlertSuccessTime(result.rows[i]) = q[i].timestamp

\* C7 as stated: Rule B returns exactly one alert per qualifying success, none
\* for any other, in the order of the successes, for every failure_threshold.
C7_Original == (pc = "done" /\ RuleB) => OneAlertPerQualifyingSuccess

\* C7 as amended: the same, provided failure_threshold >= 1 or the input holds
\* at least one FAILED_LOGIN event with ip and timestamp.
C7_OneAlertPerQualifyingSuccess ==
    (pc = "done" /\ RuleB /\ (threshold >= 1 \/ \E ip \in IPs : FailuresOf(ip) # <<>>))
        => OneAlertPerQualifyingSuccess

\* two alerts for the same ip, and a success that does not qualify
C7_Witness ==
    /\ pc = "done" /\ RuleB /\ threshold >= 1 /\ result.kind = "frame"
    /\ Len(result.rows) >= 2
    /\ result.rows[1].ip = result.rows[2].ip
    /\ Len(Successes) > Len(result.rows)

\* the columns of a non-empty result of the rule called
NonEmptyColumns ==
    LET c == IF RuleA THEN BruteForceColumns(module) ELSE SuccessAfterColumns(module)
    IN  { c[i] : i \in 1..Len(c) }

\* nothing to report: no row of the input makes the rule called emit an alert
NothingToReport ==
    IF RuleA
    THEN \A ip \in IPs : Bursts(FailureTimes(ip), threshold, Window) = {}
    ELSE \A i \in 1..Len(Successes) : ~Qualifies(Successes[i])

\* C8: a call that finds nothing to report returns, without error, an empty
\* table with the columns alert_type, severity, ip, username, start_time,
\* end_time, count, evidence, the same columns as a non-empty result.
C8_EmptyTableColumns ==
    (pc = "done" /\ threshold >= 1 /\ window_minutes >= 0 /\ NothingToReport) =>
        /\ result.kind = "frame"
        /\ result.rows = <<>>
        /\ ColumnSet(result) = AlertColumns
        /\ ColumnSet(result) = NonEmptyColumns

\* C10: the alert Rule A appends is taken at the first right at which the window
\* size reaches threshold and carries BRUTE_FORCE_IP, HIGH, the ip of the group,
\* start_time = times[left], end_time = times[right], count = right - left + 1,
\* evidence = raws[max(left, right - 2) .. right] joined by " | ", and
\* username = "multiple/unknown".
C10_AlertContent ==
    [][ (RuleA /\ Len(alerts') = Len(alerts) + 1) =>
          LET a == alerts'[Len(alerts')]
              g == CurGroup
              lo == Max(left, right - 2)
          IN  /\ a.alert_type = "BRUTE_FORCE_IP"
              /\ a.severity = "HIGH"
              /\ a.ip = Head(todo)
              /\ a.start_time = ScanTime(left)
              /\ a.end_time = ScanTime(right)
              /\ a.count = right - left + 1
              /\ a.count >= threshold
              /\ a.evidence = Join([i \in 1..(right - lo + 1) |-> g[lo + i].raw])
              /\ right - lo + 1 <= 3
              /\ window_minutes >= 0 =>
                    \A r \in 0..(right - 1) :
                        Cardinality({ l \in 0..r : ScanTime(r) - ScanTime(l) <= Window }) < threshold
              /\ "username" \in DOMAIN a
              /\ a.username = "multiple/unknown" ]_vars

\* the orders of the positions in c that are chronological: ascending by
\* timestamp, positions of equal timestamp in any order
Chronological(c) ==
    { o \in [1..Cardinality(c) -> c] :
        /\ \A i, j \in 1..Cardinality(c) : i # j => o[i] # o[j]
        /\ \A i \in 1..(Cardinality(c) - 1) : events[o[i]].timestamp <= events[o[i + 1]].timestamp }

\* the raws of the last up-to-3 positions of the order o, then the raw of s, joined
EvidenceOf(o, s) ==
    LET n == Len(o)
        k == IF n < 3 THEN n ELSE 3
    IN  Join(Append([i \in 1..k |-> events[o[n - k + i]].raw], s.raw))

\* C11: the evidence of a Rule B alert is the raw text of the up-to-3 counted
\* failures with the latest timestamps, in chronological order, followed by the
\* raw of the success, joined by " | ", whatever the order of the events in
\* the input.
C11_EvidenceChronological ==
    (RuleB /\ pc = "iter") =>
        LET q == SelectSeq(Visited, Qualifies)
        IN  \A i \in 1..Len(alerts) :
                i <= Len(q) =>
                    \E o \in Chronological(Counted(q[i])) : alerts[i].evidence = EvidenceOf(o, q[i])

\* what a two-pointer scan finds in the ascending times ts, from the cursors
\* l and r (0-based): the first window that reaches th, none, or a read past
\* the end of ts
RECURSIVE FirstWindow(_, _, _, _, _)
FirstWindow(ts, th, w, l, r) ==
    IF r >= Len(ts) THEN [kind |-> "none"]
    ELSE IF l >= Len(ts) THEN [kind |-> "raise"]
    ELSE IF ts[r + 1] - ts[l + 1] > w THEN FirstWindow(ts, th, w, l + 1, r)
    ELSE IF r - l + 1 >= th
    THEN [kind |-> "alert", start_time |-> ts[l + 1], end_time |-> ts[r + 1], count |-> r - l + 1]
    ELSE FirstWindow(ts, th, w, l, r + 1)

\* the outcome for ip, a function of the multiset of its failure times only
OutcomeOf(ip) == FirstWindow(FailureTimes(ip), threshold, Window, 0, 0)

\* the alerted ips with start_time, end_time and count, as returned
ReturnedAlerts ==
    { [ip |-> result.rows[i].ip, start_time |-> result.rows[i].start_time,
       end_time |-> result.rows[i].end_time, count |-> result.rows[i].count] :
      i \in 1..Len(result.rows) }

\* the same, from the failure times of each ip in ascending order
ExpectedAlerts ==
    { [ip |-> ip, start_time |-> OutcomeOf(ip).start_time,
       end_time |-> OutcomeOf(ip).end_time, count |-> OutcomeOf(ip).count] :
      ip \in { x \in IPs : OutcomeOf(x).kind = "alert" } }

\* C12: what Rule A returns does not depend on the order of the events: the
\* alerted ips and the start_time, end_time and count of each are determined by
\* the failure times of each ip taken in ascending order, whatever the order
\* of the rows in the input (and so is an error raised for a negative window).
C12_OrderIndependent ==
    (pc = "done" /\ RuleA) =>
        IF \E ip \in IPs : OutcomeOf(ip).kind = "raise"
        THEN result.kind = "raised"
        ELSE result.kind = "frame" /\ ReturnedAlerts = ExpectedAlerts

\* an alert for an ip whose failures come in the input latest first
C12_Witness ==
    /\ pc = "done" /\ RuleA /\ threshold >= 2 /\ result.kind = "frame"
    /\ \E a \in ReturnedAlerts :
          /\ a.start_time < a.end_time
          /\ \E i, j \in 1..Len(events) :
                /\ i < j
                /\ IsFailure(events[i]) /\ IsFailure(events[j])
                /\ events[i].ip = a.ip /\ events[j].ip = a.ip
                /\ events[i].timestamp = a.end_time /\ events[j].timestamp = a.start_time

\* the cursors of the scan are inside the group: 0 <= left <= right < len(times)
CursorsInRange == 0 <= left /\ left <= right /\ right < Len(CurGroup)

\* C13: Rule A, window >= 0: at every step of the scan 0 <= left <= right <
\* the number of failures of the ip; the eviction loop never reads past the end
\* of the list (no IndexError); left never decreases while one ip is scanned;
\* an emitted alert has end_time - start_time <= window and, for
\* threshold >= 1, count = threshold.
C13_ScanInvariant ==
    [][ (RuleA /\ window_minutes >= 0) =>
          /\ pc = "scan" => CursorsInRange
          /\ (pc' = "scan") => CursorsInRange'
          /\ result'.kind # "raised"
          /\ (pc = "scan" /\ pc' = "scan" /\ todo' = todo) => left' >= left
          /\ Len(alerts') = Len(alerts) + 1 =>
                LET a == alerts'[Len(alerts')]
                IN  /\ a.end_time - a.start_time <= Window
                    /\ a.start_time = ScanTime(left)
                    /\ a.end_time = ScanTime(right)
                    /\ threshold >= 1 => a.count = threshold ]_vars

\* an alert emitted after the left cursor has moved: its window does not start
\* at the first failure of the ip
C13_Witness ==
    /\ pc = "done" /\ RuleA /\ window_minutes >= 0 /\ threshold >= 2 /\ result.kind = "frame"
    /\ \E a \in ReturnedAlerts :
          /\ a.start_time > FailureTimes(a.ip)[1]
          /\ a.count = threshold

----------------------------------------------------------------------------
(* Claims about parse_auth_log *)

Parsing == fn = "parse_auth_log"

\* a line is blank when it holds nothing but white space
IsBlank(l) == \A k \in 1..Len(l) : l[k] \in SpaceChars

RECURSIVE DropLeading(_)
DropLeading(l) == IF l # <<>> /\ Head(l) \in SpaceChars THEN DropLeading(Tail(l)) ELSE l

RECURSIVE DropTrailing(_)
DropTrailing(l) ==
    IF l # <<>> /\ l[Len(l)] \in SpaceChars THEN DropTrailing(SubSeq(l, 1, Len(l) - 1)) ELSE l

\* the trimmed text of a line: without its leading and trailing white space
Trimmed(l) == DropTrailing(DropLeading(l))

\* the non-blank lines of the file, trimmed, in order
NonBlankLines ==
    LET nb == SelectSeq(lines, LAMBDA l : ~IsBlank(l))
    IN  [i \in 1..Len(nb) |-> Trimmed(nb[i])]

\* a line that matches the prefix pattern but names no calendar date and time
BadTimestamp(l) ==
    /\ PREFIX_RE(l).ok
    /\ ~_parse_timestamp(PREFIX_RE(l).mon, PREFIX_RE(l).day, PREFIX_RE(l).time, year).ok

\* C1: parse_auth_log returns one Event per non-blank line, in input order, its
\* raw being the trimmed line, for every content of an existing file
\* (a file without any non-blank line included).
C1_OneEventPerNonBlankLine ==
    (Parsing /\ pc = "done" /\ exists) =>
        /\ result.kind = "frame"
        /\ Len(result.rows) = Len(NonBlankLines)
        /\ \A i \in 1..Len(NonBlankLines) : result.rows[i].raw = Str(NonBlankLines[i])

\* C2: parse_auth_log raises only for a missing file; a line whose prefix
\* matches but whose month, day and time are no calendar timestamp yields an
\* Event with an absent timestamp, and the following lines are parsed
\* (stated for files that hold a non-blank line; the file without one is the
\* case of C1).
C2_NeverRaisesOnContent ==
    (Parsing /\ pc = "done") =>
        IF exists
        THEN NonBlankLines # <<>> =>
             /\ result.kind = "frame"
             /\ Len(result.rows) = Len(NonBlankLines)
             /\ \A i \in 1..Len(NonBlankLines) :
                   BadTimestamp(NonBlankLines[i]) => result.rows[i].timestamp = NaT
        ELSE result = Raised("FileNotFoundError")

EventTypes == {"FAILED_LOGIN", "SUCCESS_LOGIN", "SUDO", "OTHER"}

\* the message after the prefix of a line that matches the prefix pattern
MessageOf(l) == lstrip(PREFIX_RE(l).message)

\* the type the fixed priority failed > accepted > sudo > other gives a message
TypeByPriority(msg) ==
    IF FAILED_RE(msg).ok THEN "FAILED_LOGIN"
    ELSE IF ACCEPTED_RE(msg).ok THEN "SUCCESS_LOGIN"
    ELSE IF SUDO_RE(msg).ok THEN "SUDO"
    ELSE "OTHER"

\* C3: every Event has one of the four types, chosen by the priority failed,
\* accepted, sudo, other on the message after the prefix; a line without the
\* prefix is OTHER with timestamp, host, service, username and ip absent; ip is
\* present only on FAILED_LOGIN and SUCCESS_LOGIN events, username only when
\* one of the three rules matched.
C3_ClassificationByPriority ==
    Parsing =>
        LET nb == NonBlankLines
        IN  /\ Len(rows) <= Len(nb)
            /\ \A i \in 1..Len(rows) :
                  LET r == rows[i]
                      p == PREFIX_RE(nb[i])
                  IN  /\ r.event_type \in EventTypes
                      /\ IF p.ok
                         THEN r.event_type = TypeByPriority(lstrip(p.message))
                         ELSE /\ r.event_type = "OTHER"
                              /\ r.timestamp = NaT
                              /\ r.host = None /\ r.service = None
                              /\ r.username = None /\ r.ip = None
                      /\ r.ip # None => r.event_type \in {"FAILED_LOGIN", "SUCCESS_LOGIN"}
                      /\ r.username # None => r.event_type \in {"FAILED_LOGIN", "SUCCESS_LOGIN", "SUDO"}
                      /\ r.event_type \in {"FAILED_LOGIN", "SUCCESS_LOGIN"} => r.ip # None /\ r.username # None

\* a FAILED_LOGIN Event of a message that the accepted and the sudo rule match
\* too, next to an OTHER Event of a line without the prefix
C3_Witness ==
    /\ Parsing /\ pc = "done" /\ result.kind = "frame"
    /\ \E i \in 1..Len(rows) :
          /\ rows[i].event_type = "FAILED_LOGIN"
          /\ ACCEPTED_RE(MessageOf(NonBlankLines[i])).ok
          /\ SUDO_RE(MessageOf(NonBlankLines[i])).ok
    /\ \E i \in 1..Len(rows) : ~PREFIX_RE(NonBlankLines[i]).ok /\ rows[i].event_type = "OTHER"

====
